---- MODULE Spec2Model ----
(***************************************************************************)
(* Federated Kaplan-Meier with interval censoring (strata_fit_v6_km_py).   *)
(*                                                                         *)
(* Three specifications share this module:                                 *)
(*   Spec     the coordinator kaplan_meier_central and the organizations'  *)
(*            partial tasks, round by round;                               *)
(*   SpecPre  strata_fit_data_to_km_input as a function of a raw visit     *)
(*            table;                                                       *)
(*   SpecAgg  the aggregation step (concat, groupby-sum, hazard,           *)
(*            cumulative incidence) as a function of local event tables.   *)
(*                                                                         *)
(* Times are whole months.  DAS28 is held in tenths (3.2 is 32).  Real     *)
(* valued columns (hazard, cumulative incidence) are exact fractions with  *)
(* a NaN flag, since pandas yields NaN for 0/0.                            *)
(***************************************************************************)
EXTENDS Integers, Sequences, FiniteSets

VARIABLES
    \* ---- kaplan_meier_central and the organizations (Spec) ----
    pc,                        \* position of kaplan_meier_central
    organizations_to_include,  \* the parameter, rebound at central.py:80
    noise_type,                \* "NONE" or "GAUSSIAN"
    random_seed,               \* "None" or "seed"
    db,                        \* organization -> label of its database
    task,                      \* the partial task in flight
    results,                   \* organization -> result of the task in flight
    draw,                      \* organization -> noise drawn under the seed
    unique_event_times,        \* the global grid (central.py:97)
    km_df,                     \* the global survival table
    prevalence_df,             \* the global prevalence table
    outcome,                   \* what the call has produced so far
    \* ---- the two preprocessing functions alone (SpecPre) ----
    df,                        \* the raw visit table given
    summary,                   \* the table strata_fit_data_to_km_input returns
    d2t_by_year,               \* the table compute_d2t_prevalence_by_year returns
    prePc,
    \* ---- the aggregation step alone (SpecAgg) ----
    local_event_tables,        \* local tables, all built on AggGrid
    aggPc,
    aggWhole,                  \* all tables summed, then derived
    aggSplit                   \* a split: one group, and the two group sums summed, then derived

protoVars == <<pc, organizations_to_include, noise_type, random_seed, db, task,
               results, draw, unique_event_times, km_df, prevalence_df, outcome>>
preVars == <<df, summary, d2t_by_year, prePc>>
aggVars == <<local_event_tables, aggPc, aggWhole, aggSplit>>
vars == <<protoVars, preVars, aggVars>>

-----------------------------------------------------------------------------
(* Bounds of the model.                                                    *)

\* most visits of one patient in an enumerated raw table
MaxVisits == 3
\* most local tables in an enumerated aggregation input
MaxTables == 3
\* largest perturbation (months) the noise injector adds to one time
MaxNoise == 1

-----------------------------------------------------------------------------
(* Generic helpers.                                                        *)

Range(s) == {s[i] : i \in DOMAIN s}

Min(S) == CHOOSE x \in S : \A y \in S : x <= y

Max(S) == CHOOSE x \in S : \A y \in S : x >= y

RECURSIVE SumSeq(_)
SumSeq(s) == IF s = <<>> THEN 0 ELSE Head(s) + SumSeq(Tail(s))

RECURSIVE SetToSortedSeq(_)
\* Python's sorted() on a set of numbers
SetToSortedSeq(S) ==
    IF S = {} THEN <<>>
    ELSE LET m == Min(S) IN <<m>> \o SetToSortedSeq(S \ {m})

RECURSIVE Gcd(_, _)
Gcd(a, b) == IF b = 0 THEN a ELSE Gcd(b, a % b)

\* the subsequence of s at the positions in keep, order kept
SelectPos(s, keep) ==
    LET RECURSIVE go(_)
        go(i) == IF i > Len(s) THEN <<>>
                 ELSE (IF i \in keep THEN <<s[i]>> ELSE <<>>) \o go(i + 1)
    IN go(1)

-----------------------------------------------------------------------------
(* preprocessing.py                                                        *)

\* a missing bDMARD / tsDMARD code (pd.isna)
NA == -1
\* the diagnosis-year floor
ClipYear == 2006
MonthsPerYear == 12
\* DAS28 > 3.2, in tenths
DasThreshold == 32
\* Pat_global > 50, Ph_global > 50
GlobalThreshold == 50
\* rolling(window=3, min_periods=1)
RollingWindow == 3
\* criterion 1: cum_unique_btsDMARD >= 2
Crit1Classes == 2
\* censoring: cum_btsDMARDmin > 2
IntervalClasses == 2

\* EventType values (types.py), as the docstring of
\* strata_fit_data_to_km_input names them
EXACT == "exact"
CENSORED == "censored"
INTERVAL == "interval"

\* df.sort_values(['pat_ID', 'Visit_months_from_diagnosis'])
RowBefore(a, b) ==
    \/ a.pat_ID < b.pat_ID
    \/ /\ a.pat_ID = b.pat_ID
       /\ a.Visit_months_from_diagnosis < b.Visit_months_from_diagnosis

RECURSIVE InsertRow(_, _)
InsertRow(s, r) ==
    IF s = <<>> THEN <<r>>
    ELSE IF RowBefore(r, Head(s)) THEN <<r>> \o s
    ELSE <<Head(s)>> \o InsertRow(Tail(s), r)

RECURSIVE SortVisits(_)
SortVisits(t) ==
    IF t = <<>> THEN <<>>
    ELSE InsertRow(SortVisits(SelectPos(t, {i \in DOMAIN t : i < Len(t)})), t[Len(t)])

\* ShiftRow taking the years of the shift for months
ShiftRowByYears(r) ==
    IF r.Year_diagnosis < ClipYear
    THEN [r EXCEPT !.Visit_months_from_diagnosis = @ - (ClipYear - r.Year_diagnosis),
                   !.Year_diagnosis = ClipYear]
    ELSE r

\* preprocessing.py:104-109: rows diagnosed before 2006 are moved to 2006
ShiftRow(r) ==
    IF r.Year_diagnosis < ClipYear
    THEN [r EXCEPT !.Visit_months_from_diagnosis =
                       @ - (ClipYear - r.Year_diagnosis) * MonthsPerYear,
                   !.Year_diagnosis = ClipYear]
    ELSE r

\* preprocessing.py:103-110: sort, shift, drop negative offsets, reset_index
ClipTo2006(t) ==
    LET sorted == SortVisits(t)
        shifted == [i \in DOMAIN sorted |-> ShiftRow(sorted[i])]
    IN SelectPos(shifted,
                 {i \in DOMAIN shifted : shifted[i].Visit_months_from_diagnosis >= 0})

\* the index labels of t in the order sort_values gives (stable)
RECURSIVE SortedIndex(_, _)
SortedIndex(t, n) ==
    IF n = 0 THEN <<>>
    ELSE LET RECURSIVE ins(_)
             ins(s) == IF s = <<>> THEN <<n>>
                       ELSE IF RowBefore(t[n], t[Head(s)]) THEN <<n>> \o s
                       ELSE <<Head(s)>> \o ins(Tail(s))
         IN ins(SortedIndex(t, n - 1))

\* compute_unique_dmards: per patient, in visit order, the number of distinct
\* drug classes (both families together) seen up to each visit; the result is
\* indexed like t
compute_unique_dmards(t) ==
    LET order == SortedIndex(t, Len(t))
        posOf(i) == CHOOSE k \in DOMAIN order : order[k] = i
        upTo(k) == {order[j] : j \in {j \in 1..k :
                                        t[order[j]].pat_ID = t[order[k]].pat_ID}}
        unique_b(k) == {t[j].bDMARD : j \in upTo(k)} \ {NA}
        unique_ts(k) == {t[j].tsDMARD : j \in upTo(k)} \ {NA}
    IN [i \in DOMAIN t |->
          Cardinality(unique_b(posOf(i)) \cup unique_ts(posOf(i)))]

\* the positions of t at or before i that belong to the patient of row i
SamePatientUpTo(t, i) == {j \in 1..i : t[j].pat_ID = t[i].pat_ID}

\* df.groupby('pat_ID')['cum_unique_btsDMARD'].cummin() (preprocessing.py:114)
GroupCummin(t, col) ==
    [i \in DOMAIN t |-> Min({col[j] : j \in SamePatientUpTo(t, i)})]

\* rolling(window=3, min_periods=1).mean() > 3.2 per patient
\* (preprocessing.py:118, 122): the mean of the last three DAS28 values
RollingAbove(t, i) ==
    LET mine == SetToSortedSeq(SamePatientUpTo(t, i))
        from == IF Len(mine) > RollingWindow THEN Len(mine) - RollingWindow + 1
                ELSE 1
        win == SelectPos(mine, {k \in DOMAIN mine : k >= from})
    IN SumSeq([k \in DOMAIN win |-> t[win[k]].DAS28]) > DasThreshold * Len(win)

\* preprocessing.py:113-125: the flag D2T_RA of every visit
D2T_RA(t) ==
    LET cum_unique_btsDMARD == compute_unique_dmards(t)
    IN [i \in DOMAIN t |->
          LET D2T_crit1 == cum_unique_btsDMARD[i] >= Crit1Classes
              D2T_crit2 == t[i].DAS28 > DasThreshold \/ RollingAbove(t, i)
              D2T_crit3 == \/ t[i].Pat_global > GlobalThreshold
                           \/ t[i].Ph_global > GlobalThreshold
          IN D2T_crit1 /\ D2T_crit2 /\ D2T_crit3]

\* preprocessing.py:133, 139: the earliest flagged month, else (fillna) maxFU
TimeToEvent(flaggedMonths, maxFU) ==
    IF flaggedMonths # {} THEN Min(flaggedMonths) ELSE maxFU

\* preprocessing.py:142-149: np.select over the two conditions, default 'no'
CensoringType(D2T_RA_Ever, cum_btsDMARDmin) ==
    IF D2T_RA_Ever /\ cum_btsDMARDmin > IntervalClasses THEN "interval"
    ELSE IF ~D2T_RA_Ever THEN "right"
    ELSE "no"

\* preprocessing.py:152
IntervalStart(cens, TTE) == IF cens = "interval" THEN 0 ELSE TTE

\* IntervalEnd with the two branches swapped
IntervalEndSwapped(cens, minFU, TTE) == IF cens = "interval" THEN TTE ELSE minFU

\* preprocessing.py:153
IntervalEnd(cens, minFU, TTE) == IF cens = "interval" THEN minFU ELSE TTE

\* EventIndicator with the second condition and the default exchanged
EventIndicatorDefaultExact(cens) ==
    IF cens = "interval" THEN INTERVAL
    ELSE IF cens = "no" THEN CENSORED
    ELSE EXACT

\* preprocessing.py:154-161
EventIndicator(cens) ==
    IF cens = "interval" THEN INTERVAL
    ELSE IF cens = "no" THEN EXACT
    ELSE CENSORED

\* preprocessing.py:128-161 for one patient p of the clipped table t
SummaryRow(t, p) ==
    LET rows == {i \in DOMAIN t : t[i].pat_ID = p}
        flag == D2T_RA(t)
        cummin == GroupCummin(t, compute_unique_dmards(t))
        months(S) == {t[i].Visit_months_from_diagnosis : i \in S}
        D2T_RA_Ever == \E i \in rows : flag[i]
        cum_btsDMARDmin == Max({cummin[i] : i \in rows})
        minFU == Min(months(rows))
        maxFU == Max(months(rows))
        TTE == TimeToEvent(months({i \in rows : flag[i]}), maxFU)
        cens == CensoringType(D2T_RA_Ever, cum_btsDMARDmin)
    IN [pat_ID |-> p,
        Year_diagnosis |-> t[Min(rows)].Year_diagnosis,
        D2T_RA_Ever |-> D2T_RA_Ever,
        cum_btsDMARDmin |-> cum_btsDMARDmin,
        minFU |-> minFU,
        TTE |-> TTE,
        maxFU |-> maxFU,
        cens |-> cens,
        interval_start |-> IntervalStart(cens, TTE),
        interval_end |-> IntervalEnd(cens, minFU, TTE),
        event_indicator |-> EventIndicator(cens)]

\* strata_fit_data_to_km_input: one row per patient left after the clip,
\* in pat_ID order (groupby sorts its keys)
strata_fit_data_to_km_input(t) ==
    LET clipped == ClipTo2006(t)
        pats == SetToSortedSeq({clipped[i].pat_ID : i \in DOMAIN clipped})
    IN [k \in DOMAIN pats |-> SummaryRow(clipped, pats[k])]

-----------------------------------------------------------------------------
(* utils.py: add_noise_to_event_times.  The file is not among the sources; *)
(* spec.md 4.1 gives its contract: NONE is the identity, otherwise every   *)
(* value of the column is perturbed on its own, the same seed on the same  *)
(* input gives the same output.  A perturbation here is a whole number of  *)
(* months in 0..MaxNoise chosen by the caller of this operator.            *)

NoiseOffsets == 0..MaxNoise

add_noise_to_event_times(column, type, offsets) ==
    IF type = "NONE" THEN column
    ELSE [i \in DOMAIN column |-> column[i] + offsets[i]]

\* the perturbations one call of a partial task may draw for n records:
\* one per record for interval_start, one per record for interval_end
NoiseDraws(type, n) ==
    IF type = "NONE" THEN {[start |-> [i \in 1..n |-> 0], end |-> [i \in 1..n |-> 0]]}
    ELSE [start : [1..n -> NoiseOffsets], end : [1..n -> NoiseOffsets]]

NoDraw == [start |-> <<>>, end |-> <<>>]

-----------------------------------------------------------------------------
(* partial.py                                                              *)

\* partial.py:33-37 and 64-67: noise on both time columns of the
\* preprocessed records recs
NoisedRecords(recs, type, d) ==
    LET start == add_noise_to_event_times(
                     [i \in DOMAIN recs |-> recs[i].interval_start], type, d.start)
        end == add_noise_to_event_times(
                   [i \in DOMAIN recs |-> recs[i].interval_end], type, d.end)
    IN [i \in DOMAIN recs |->
          [interval_start |-> start[i], interval_end |-> end[i],
           event_indicator |-> recs[i].event_indicator]]

\* Unique without the deduplication: every value, one per record and column
KeepAll(s) == s

RECURSIVE Unique(_)
\* Series.unique(): the distinct values in order of first appearance
Unique(s) ==
    IF s = <<>> THEN <<>>
    ELSE LET init == Unique(SelectPos(s, {i \in DOMAIN s : i < Len(s)}))
             last == s[Len(s)]
         IN IF last \in Range(init) THEN init ELSE Append(init, last)

\* get_unique_event_times after the preprocessing (partial.py:33-45)
UniqueTimesOfRecords(recs, type, d) ==
    LET r == NoisedRecords(recs, type, d)
    IN Unique([i \in DOMAIN r |-> r[i].interval_start]
              \o [i \in DOMAIN r |-> r[i].interval_end])

\* get_unique_event_times (partial.py:18-45)
get_unique_event_times(t, type, d) ==
    UniqueTimesOfRecords(strata_fit_data_to_km_input(t), type, d)

RECURSIVE SortTimes(_)
\* sorted(unique_event_times) on a list
SortTimes(s) ==
    IF s = <<>> THEN <<>>
    ELSE LET m == Min(Range(s))
             k == CHOOSE i \in DOMAIN s : s[i] = m
         IN <<m>> \o SortTimes(SelectPos(s, {i \in DOMAIN s : i # k}))

\* CountAt keyed by interval_start whatever the category
CountAtStart(r, category, column, time) ==
    Cardinality({i \in DOMAIN r :
                   r[i].event_indicator = category /\ r[i].interval_start = time})

\* value_counts().reindex(unique_event_times, fill_value=0) at one time
\* (partial.py:78, 83, 88): the records of one category whose key column
\* equals the time
CountAt(r, category, column, time) ==
    Cardinality({i \in DOMAIN r :
                   r[i].event_indicator = category /\ r[i][column] = time})

\* ReverseCumsum without the two reversals: a forward cumulative sum
ForwardCumsum(removed) ==
    [k \in DOMAIN removed |->
       SumSeq(SelectPos(removed, {j \in DOMAIN removed : j <= k}))]

\* event_table["removed"].iloc[::-1].cumsum().iloc[::-1] (partial.py:103)
ReverseCumsum(removed) ==
    [k \in DOMAIN removed |->
       SumSeq(SelectPos(removed, {j \in DOMAIN removed : j >= k}))]

\* get_km_event_table after the preprocessing (partial.py:64-106): the row
\* index is the sorted grid, the counts are taken in the order of the grid as
\* passed and laid on the rows by position (.values)
EventTableOfRecords(recs, grid, type, d) ==
    LET r == NoisedRecords(recs, type, d)
        index == SortTimes(grid)
        event_counts == [k \in DOMAIN grid |-> CountAt(r, EXACT, "interval_start", grid[k])]
        censored_counts ==
            [k \in DOMAIN grid |-> CountAt(r, CENSORED, "interval_start", grid[k])]
        interval_counts ==
            [k \in DOMAIN grid |-> CountAt(r, INTERVAL, "interval_end", grid[k])]
        total_removed ==
            [k \in DOMAIN grid |->
               event_counts[k] + censored_counts[k] + interval_counts[k]]
        at_risk == ReverseCumsum(total_removed)
    IN [k \in DOMAIN grid |->
          [interval_start |-> index[k],
           removed |-> total_removed[k],
           observed |-> event_counts[k],
           interval |-> interval_counts[k],
           censored |-> censored_counts[k],
           at_risk |-> at_risk[k]]]

\* get_km_event_table (partial.py:48-106)
get_km_event_table(t, grid, type, d) ==
    EventTableOfRecords(strata_fit_data_to_km_input(t), grid, type, d)

-----------------------------------------------------------------------------
(* central.py: the aggregation step                                        *)

\* a real: num/den in lowest terms, or NaN
Frac(n, d) ==
    LET g == Gcd(IF n < 0 THEN -n ELSE n, d)
    IN [nan |-> FALSE, num |-> n \div g, den |-> d \div g]
NaN == [nan |-> TRUE, num |-> 0, den |-> 1]

RECURSIVE Concat(_)
\* pd.concat of a list of tables
Concat(tables) ==
    IF tables = <<>> THEN <<>> ELSE Head(tables) \o Concat(Tail(tables))

\* GroupSum with .last() in place of .sum(): per key, the last row's values
GroupLast(tables) ==
    LET all == Concat(tables)
        keys == SetToSortedSeq({all[i].interval_start : i \in DOMAIN all})
        last(key) == all[Max({i \in DOMAIN all : all[i].interval_start = key})]
    IN [k \in DOMAIN keys |-> last(keys[k])]

\* pd.concat(tables).groupby("interval_start", as_index=False).sum()
\* (central.py:112): one row per distinct key, keys ascending, every other
\* column summed over the rows with that key
GroupSum(tables) ==
    LET all == Concat(tables)
        keys == SetToSortedSeq({all[i].interval_start : i \in DOMAIN all})
        total(key, col) ==
            SumSeq([i \in DOMAIN all |->
                      IF all[i].interval_start = key THEN all[i][col] ELSE 0])
    IN [k \in DOMAIN keys |->
          [interval_start |-> keys[k],
           removed |-> total(keys[k], "removed"),
           observed |-> total(keys[k], "observed"),
           interval |-> total(keys[k], "interval"),
           censored |-> total(keys[k], "censored"),
           at_risk |-> total(keys[k], "at_risk")]]

\* (observed + interval * 0.5) / at_risk (central.py:113); x/0 is NaN for
\* x = 0 and inf otherwise, which no count table produces (observed +
\* interval <= removed <= at_risk) and is held as NaN too
Hazard(row) ==
    IF row.at_risk = 0 THEN NaN
    ELSE Frac(2 * row.observed + row.interval, 2 * row.at_risk)

\* (1 - hazard).cumprod() up to row k (central.py:114): cumprod skips NaN
\* entries and leaves NaN in their place
RECURSIVE SurvivalProduct(_, _)
SurvivalProduct(hazard, k) ==
    IF k = 0 THEN Frac(1, 1)
    ELSE LET before == SurvivalProduct(hazard, k - 1)
             h == hazard[k]
         IN IF h.nan THEN before
            ELSE Frac(before.num * (h.den - h.num), before.den * h.den)

CumulativeIncidence(hazard, k) ==
    IF hazard[k].nan THEN NaN
    ELSE LET s == SurvivalProduct(hazard, k) IN Frac(s.den - s.num, s.den)

\* central.py:113-114: the two derived columns
Derive(table) ==
    LET hazard == [k \in DOMAIN table |-> Hazard(table[k])]
    IN [k \in DOMAIN table |->
          [interval_start |-> table[k].interval_start,
           removed |-> table[k].removed,
           observed |-> table[k].observed,
           interval |-> table[k].interval,
           censored |-> table[k].censored,
           at_risk |-> table[k].at_risk,
           hazard |-> hazard[k],
           cumulative_incidence |-> CumulativeIncidence(hazard, k)]]

-----------------------------------------------------------------------------
(* Prevalence: preprocessing.py compute_d2t_prevalence_by_year and         *)
(* central.py step 4                                                       *)

\* compute_d2t_prevalence_by_year (preprocessing.py:171-200): per calendar
\* year of visit, the distinct patients seen and the flagged visits
compute_d2t_prevalence_by_year(t) ==
    LET c == ClipTo2006(t)
        flag == D2T_RA(c)
        Year_visit(i) ==
            c[i].Year_diagnosis + (c[i].Visit_months_from_diagnosis \div MonthsPerYear)
        years == SetToSortedSeq({Year_visit(i) : i \in DOMAIN c})
        rowsIn(y) == {i \in DOMAIN c : Year_visit(i) = y}
    IN [k \in DOMAIN years |->
          [Year_visit |-> years[k],
           total_patients |-> Cardinality({c[i].pat_ID : i \in rowsIn(years[k])}),
           d2t_positive |-> Cardinality({i \in rowsIn(years[k]) : flag[i]})]]

\* central.py:123-127: concat, groupby("Year_visit").sum(), the fraction
AggregatePrevalence(tables) ==
    LET all == Concat(tables)
        years == SetToSortedSeq({all[i].Year_visit : i \in DOMAIN all})
        total(y, col) ==
            SumSeq([i \in DOMAIN all |->
                      IF all[i].Year_visit = y THEN all[i][col] ELSE 0])
    IN [k \in DOMAIN years |->
          [Year_visit |-> years[k],
           total_patients |-> total(years[k], "total_patients"),
           d2t_positive |-> total(years[k], "d2t_positive"),
           D2T_RA_prevalence |->
               IF total(years[k], "total_patients") = 0 THEN NaN
               ELSE Frac(total(years[k], "d2t_positive"),
                         total(years[k], "total_patients"))]]

-----------------------------------------------------------------------------
(* Raw visit tables given to the preprocessing (SpecPre).                  *)

Visit(p, y, m, b, ts, das, pg, phg) ==
    [pat_ID |-> p, Year_diagnosis |-> y, Visit_months_from_diagnosis |-> m,
     bDMARD |-> b, tsDMARD |-> ts, DAS28 |-> das, Pat_global |-> pg,
     Ph_global |-> phg]

\* months from diagnosis at which an enumerated patient may be seen
VisitMonths == {0, 6, 12, 18}
\* diagnosis years of enumerated patients: one before the floor, one at it
DiagnosisYears == {ClipYear - 1, ClipYear}
\* drug classes in use at an enumerated visit
BCodes == {NA, 1, 2}
TsCodes == {NA, 3}
\* (DAS28 in tenths, Pat_global, Ph_global) of an enumerated visit:
\* calm, active with patient-reported burden, physician-reported burden only
Profiles == {<<20, 40, 40>>, <<50, 60, 40>>, <<20, 40, 60>>}

VisitAttrs == BCodes \X TsCodes \X Profiles

\* the ascending sequences of k distinct months of VisitMonths
MonthSeqs(k) ==
    {SetToSortedSeq(S) : S \in {S \in SUBSET VisitMonths : Cardinality(S) = k}}

\* one patient p diagnosed in year y, seen at the months ms with attributes a
PatientVisits(p, y, ms, a) ==
    [i \in DOMAIN ms |->
       Visit(p, y, ms[i], a[i][1], a[i][2], a[i][3][1], a[i][3][2], a[i][3][3])]

\* spec.md section 8: flagged at month 18, a third class by month 24,
\* follow-up from month 0 to month 40
SustainedPatient ==
    <<Visit(1, ClipYear, 0, 1, NA, 20, 40, 40),
      Visit(1, ClipYear, 18, 2, NA, 50, 60, 40),
      Visit(1, ClipYear, 24, NA, 3, 50, 60, 40),
      Visit(1, ClipYear, 40, NA, 3, 50, 60, 40)>>

\* spec.md section 8: never flagged across a 36-month follow-up
NeverFlaggedPatient ==
    <<Visit(1, ClipYear, 0, 1, NA, 20, 40, 40),
      Visit(1, ClipYear, 12, 1, NA, 50, 40, 40),
      Visit(1, ClipYear, 36, 1, NA, 20, 60, 40)>>

\* two patients in one table, rows not in visit order; patient 2 is diagnosed
\* before the floor and uses the same class code in both drug families
TwoPatients ==
    <<Visit(2, ClipYear - 1, 18, 1, 1, 50, 60, 40),
      Visit(1, ClipYear, 12, 2, 3, 50, 40, 60),
      Visit(2, ClipYear - 1, 6, 1, NA, 50, 60, 40),
      Visit(1, ClipYear, 0, 1, NA, 20, 40, 40)>>

\* a patient whose rows carry two diagnosis years: the clip shifts only the
\* row diagnosed before the floor, so the cleaned table is no longer in visit
\* order and the running minimum starts from the later visit's class count
MixedYearPatient(p) ==
    <<Visit(p, ClipYear - 1, 30, 1, 3, 50, 60, 40),
      Visit(p, ClipYear, 20, 2, NA, 50, 60, 40)>>

\* three patients, one of each censoring category
ThreeCategories == TwoPatients \o MixedYearPatient(3)

ScenarioTables ==
    {SustainedPatient, NeverFlaggedPatient, TwoPatients, MixedYearPatient(1),
     ThreeCategories}

\* the tables SpecPre starts from: every table of one patient with
\* 1..MaxVisits visits, and the scenarios
IsInputTable(t) ==
    \/ \E k \in 1..MaxVisits, y \in DiagnosisYears :
         \E ms \in MonthSeqs(k), a \in [1..k -> VisitAttrs] :
            t = PatientVisits(1, y, ms, a)
    \/ t \in ScenarioTables

-----------------------------------------------------------------------------
(* SpecPre: the preprocessing applied to a raw visit table.                *)

InitPre ==
    /\ IsInputTable(df)
    /\ summary = <<>>
    /\ d2t_by_year = <<>>
    /\ prePc = "input"
    /\ pc = "off"
    /\ organizations_to_include = <<>>
    /\ noise_type = "NONE"
    /\ random_seed = "None"
    /\ db = <<>>
    /\ task = <<>>
    /\ results = <<>>
    /\ draw = <<>>
    /\ unique_event_times = <<>>
    /\ km_df = <<>>
    /\ prevalence_df = <<>>
    /\ outcome = "none"
    /\ local_event_tables = <<>>
    /\ aggPc = "off"
    /\ aggWhole = <<>>
    /\ aggSplit = [group |-> {}, table |-> <<>>]

\* strata_fit_data_to_km_input(df)
Classify ==
    /\ prePc = "input"
    /\ summary' = strata_fit_data_to_km_input(df)
    /\ prePc' = "classified"
    /\ UNCHANGED <<df, d2t_by_year, protoVars, aggVars>>

\* compute_d2t_prevalence_by_year(df)
CountByYear ==
    /\ prePc = "input"
    /\ d2t_by_year' = compute_d2t_prevalence_by_year(df)
    /\ prePc' = "counted"
    /\ UNCHANGED <<df, summary, protoVars, aggVars>>

NextPre == Classify \/ CountByYear

SpecPre == InitPre /\ [][NextPre]_vars

-----------------------------------------------------------------------------
(* Spec: kaplan_meier_central and the organizations.                       *)

\* organizations of the collaboration (client.organization.list()); the mock
\* collaboration of tests/mock_client.py has three
NumOrgs == 3
Orgs == 1..NumOrgs
\* types.py MINIMUM_ORGANIZATIONS (the file is not among the sources;
\* spec.md section 8 gives 3)
MINIMUM_ORGANIZATIONS == 3

\* the raw tables an organization may hold
CensoredPatient(p) ==
    <<Visit(p, ClipYear, 0, 1, NA, 20, 40, 40),
      Visit(p, ClipYear, 12, 1, NA, 50, 40, 40)>>
ExactPatient(p) ==
    <<Visit(p, ClipYear, 0, 1, 3, 20, 40, 40),
      Visit(p, ClipYear, 6, 1, 3, 50, 60, 40),
      Visit(p, ClipYear, 12, 2, 3, 50, 60, 40)>>
\* the raw table behind a database label
Database(label) ==
    CASE label = "censored" -> CensoredPatient(1)
      [] label = "exact" -> ExactPatient(1)
      [] label = "exact+censored" -> ExactPatient(1) \o CensoredPatient(2)
      [] label = "mixed-year" -> MixedYearPatient(1)

\* the collaborations checked: organization -> label of its database
Collaborations ==
    {<<"censored", "exact", "mixed-year">>,
     <<"censored", "censored", "censored">>,
     <<"exact", "censored", "exact">>,
     <<"exact+censored", "mixed-year", "exact+censored">>}

\* the calls checked: every collaboration without noise, and with noise those
\* whose organizations hold one patient each
NoiseSettings(collaboration) ==
    IF "exact+censored" \in Range(collaboration) THEN {"NONE"}
    ELSE {"NONE", "GAUSSIAN"}

\* the ascending lists of distinct organizations a caller may pass; <<>>
\* stands for both None and the empty list (central.py:79 tests falsiness)
IncludeLists == {SetToSortedSeq(S) : S \in SUBSET Orgs}

NoTask == [method |-> "none", organizations |-> <<>>, unique_event_times |-> <<>>]
Pending == [done |-> FALSE, value |-> <<>>]
NoResults == [o \in Orgs |-> Pending]

Init ==
    /\ pc = "start"
    /\ organizations_to_include \in IncludeLists
    /\ db \in Collaborations
    /\ noise_type \in NoiseSettings(db)
    /\ random_seed \in {"None", "seed"}
    /\ task = NoTask
    /\ results = NoResults
    /\ draw = [o \in Orgs |-> NoDraw]
    /\ unique_event_times = <<>>
    /\ km_df = <<>>
    /\ prevalence_df = <<>>
    /\ outcome = "none"
    /\ df = <<>>
    /\ summary = <<>>
    /\ d2t_by_year = <<>>
    /\ prePc = "off"
    /\ local_event_tables = <<>>
    /\ aggPc = "off"
    /\ aggWhole = <<>>
    /\ aggSplit = [group |-> {}, table |-> <<>>]

\* central.py:79-80
ResolveOrganizations(given) ==
    IF given = <<>> THEN SetToSortedSeq(Orgs) ELSE given

\* QuorumMet off by one
QuorumMetOffByOne(orgs) == ~(Len(orgs) + 1 < MINIMUM_ORGANIZATIONS)

\* central.py:82: the quorum test
QuorumMet(orgs) == ~(Len(orgs) < MINIMUM_ORGANIZATIONS)

\* central.py:79-83
CheckQuorum ==
    /\ pc = "start"
    /\ organizations_to_include' = ResolveOrganizations(organizations_to_include)
    /\ IF QuorumMet(organizations_to_include')
       THEN pc' = "step1" /\ outcome' = outcome
       ELSE pc' = "raised" /\ outcome' = "PrivacyThresholdViolation"
    /\ UNCHANGED <<noise_type, random_seed, db, task, results, draw,
                   unique_event_times, km_df, prevalence_df, preVars, aggVars>>

\* _start_partial_and_collect_results up to client.task.create
\* (central.py:143-147): one task, the same input for every organization
StartPartial(method, grid) ==
    /\ task' = [method |-> method, organizations |-> organizations_to_include,
                unique_event_times |-> grid]
    /\ results' = NoResults
    /\ UNCHANGED <<organizations_to_include, noise_type, random_seed, db, draw,
                   unique_event_times, km_df, prevalence_df, outcome, preVars,
                   aggVars>>

\* central.py:86-93
StartUniqueEventTimes ==
    /\ pc = "step1"
    /\ StartPartial("get_unique_event_times", <<>>)
    /\ pc' = "wait1"

\* central.py:100-108
StartKmEventTable ==
    /\ pc = "step2"
    /\ StartPartial("get_km_event_table", unique_event_times)
    /\ pc' = "wait2"

\* central.py:118-122
StartPrevalence ==
    /\ pc = "step4"
    /\ StartPartial("get_d2t_prevalence_by_year", <<>>)
    /\ pc' = "wait4"

\* an organization has the task in flight and has not answered it
Runs(o, method) ==
    /\ task.method = method
    /\ o \in Range(task.organizations)
    /\ ~results[o].done

Answer(o, value) == [results EXCEPT ![o] = [done |-> TRUE, value |-> value]]

\* organization o runs get_unique_event_times (partial.py:18-45); the
\* perturbations drawn under a seed are the ones every later call with that
\* seed on this data draws again
RunUniqueEventTimes(o) ==
    /\ Runs(o, "get_unique_event_times")
    /\ LET recs == strata_fit_data_to_km_input(Database(db[o]))
       IN \E d \in NoiseDraws(noise_type, Len(recs)) :
            /\ results' = Answer(o, UniqueTimesOfRecords(recs, noise_type, d))
            /\ draw' = IF random_seed = "seed" /\ noise_type # "NONE"
                       THEN [draw EXCEPT ![o] = d] ELSE draw
    /\ UNCHANGED <<pc, organizations_to_include, noise_type, random_seed, db,
                   task, unique_event_times, km_df, prevalence_df, outcome,
                   preVars, aggVars>>

\* the perturbations a call in the table round may draw for n records
TableDraws(o, n) ==
    IF random_seed = "seed" /\ noise_type # "NONE" THEN {draw[o]}
    ELSE NoiseDraws(noise_type, n)

\* organization o runs get_km_event_table on the grid of the task
\* (partial.py:48-106)
RunKmEventTable(o) ==
    /\ Runs(o, "get_km_event_table")
    /\ LET recs == strata_fit_data_to_km_input(Database(db[o]))
       IN \E d \in TableDraws(o, Len(recs)) :
            results' = Answer(o, EventTableOfRecords(recs, task.unique_event_times,
                                                     noise_type, d))
    /\ draw' = [draw EXCEPT ![o] = NoDraw]
    /\ UNCHANGED <<pc, organizations_to_include, noise_type, random_seed, db,
                   task, unique_event_times, km_df, prevalence_df, outcome,
                   preVars, aggVars>>

\* organization o runs get_d2t_prevalence_by_year (partial.py:108-116)
RunPrevalence(o) ==
    /\ Runs(o, "get_d2t_prevalence_by_year")
    /\ results' = Answer(o, compute_d2t_prevalence_by_year(Database(db[o])))
    /\ UNCHANGED <<pc, organizations_to_include, noise_type, random_seed, db,
                   task, draw, unique_event_times, km_df, prevalence_df, outcome,
                   preVars, aggVars>>

\* AllAnswered returning at the first answer
AnyAnswered(res, orgs) == \E o \in Range(orgs) : res[o].done

\* client.wait_for_results (central.py:149) returns once every organization
\* of the task has answered
AllAnswered(res, orgs) == \A o \in Range(orgs) : res[o].done

\* the results of the task, in the order of its organizations
Collected == [k \in DOMAIN task.organizations |-> results[task.organizations[k]].value]

\* central.py:94-97: the union of the lists, sorted
GlobalGrid(lists) == SetToSortedSeq(UNION {Range(lists[k]) : k \in DOMAIN lists})

\* central.py:86-97 after the wait
CollectUniqueEventTimes ==
    /\ pc = "wait1"
    /\ AllAnswered(results, task.organizations)
    /\ unique_event_times' = GlobalGrid(Collected)
    /\ pc' = "step2"
    /\ UNCHANGED <<organizations_to_include, noise_type, random_seed, db, task,
                   results, draw, km_df, prevalence_df, outcome, preVars, aggVars>>

\* central.py:109-114 after the wait
AggregateEventTables ==
    /\ pc = "wait2"
    /\ AllAnswered(results, task.organizations)
    /\ km_df' = Derive(GroupSum(Collected))
    /\ pc' = "step4"
    /\ UNCHANGED <<organizations_to_include, noise_type, random_seed, db, task,
                   results, draw, unique_event_times, prevalence_df, outcome,
                   preVars, aggVars>>

\* central.py:123-135 after the wait
AggregatePrevalenceAndReturn ==
    /\ pc = "wait4"
    /\ AllAnswered(results, task.organizations)
    /\ prevalence_df' = AggregatePrevalence(Collected)
    /\ outcome' = "returned"
    /\ pc' = "done"
    /\ UNCHANGED <<organizations_to_include, noise_type, random_seed, db, task,
                   results, draw, unique_event_times, km_df, preVars, aggVars>>

Next ==
    \/ CheckQuorum
    \/ StartUniqueEventTimes
    \/ \E o \in Orgs : RunUniqueEventTimes(o)
    \/ CollectUniqueEventTimes
    \/ StartKmEventTable
    \/ \E o \in Orgs : RunKmEventTable(o)
    \/ AggregateEventTables
    \/ StartPrevalence
    \/ \E o \in Orgs : RunPrevalence(o)
    \/ AggregatePrevalenceAndReturn

Spec == Init /\ [][Next]_vars

-----------------------------------------------------------------------------
(* SpecAgg: the aggregation step applied to local event tables.           *)

\* the grid the local tables are built on
AggGrid == <<0, 6>>

Record(category, start, end) ==
    [interval_start |-> start, interval_end |-> end, event_indicator |-> category]

\* the noised records one organization may hold: none, any single record
\* whose key lies on the grid, and some lists of two or three
AggRecordLists ==
    {<<>>}
    \cup {<<Record(c, t, t)>> : c \in {EXACT, CENSORED}, t \in Range(AggGrid)}
    \cup {<<Record(INTERVAL, 0, t)>> : t \in Range(AggGrid)}
    \cup {<<Record(EXACT, 0, 0), Record(EXACT, 0, 0)>>,
          <<Record(EXACT, 0, 0), Record(CENSORED, 6, 6)>>,
          <<Record(INTERVAL, 0, 6), Record(EXACT, 6, 6), Record(CENSORED, 6, 6)>>}

InitAgg ==
    /\ local_event_tables = <<>>
    /\ aggPc = "collect"
    /\ aggWhole = <<>>
    /\ aggSplit = [group |-> {}, table |-> <<>>]
    /\ pc = "off"
    /\ organizations_to_include = <<>>
    /\ noise_type = "NONE"
    /\ random_seed = "None"
    /\ db = <<>>
    /\ task = NoTask
    /\ results = <<>>
    /\ draw = <<>>
    /\ unique_event_times = <<>>
    /\ km_df = <<>>
    /\ prevalence_df = <<>>
    /\ outcome = "none"
    /\ df = <<>>
    /\ summary = <<>>
    /\ d2t_by_year = <<>>
    /\ prePc = "off"

\* one more organization's table arrives (partial.py:69-106 on its records)
AddLocalTable ==
    /\ aggPc = "collect"
    /\ Len(local_event_tables) < MaxTables
    /\ \E recs \in AggRecordLists :
         local_event_tables' =
             Append(local_event_tables,
                    EventTableOfRecords(recs, AggGrid, "NONE", NoDraw))
    /\ UNCHANGED <<aggPc, aggWhole, aggSplit, protoVars, preVars>>

\* central.py:112-114 on all the tables
AggregateWhole ==
    /\ aggPc = "collect"
    /\ Len(local_event_tables) >= 2
    /\ aggWhole' = Derive(GroupSum(local_event_tables))
    /\ aggPc' = "whole"
    /\ UNCHANGED <<local_event_tables, aggSplit, protoVars, preVars>>

\* the tables at the positions of group, in their order
TablesOf(group) == SelectPos(local_event_tables, group)

\* central.py:112 on each of two groups, then central.py:112-114 on the two
\* group totals
AggregateSplit ==
    /\ aggPc = "whole"
    /\ \E group \in SUBSET (DOMAIN local_event_tables) :
         /\ group # {}
         /\ group # DOMAIN local_event_tables
         /\ aggSplit' =
              [group |-> group,
               table |-> Derive(GroupSum(
                   <<GroupSum(TablesOf(group)),
                     GroupSum(TablesOf(DOMAIN local_event_tables \ group))>>))]
    /\ aggPc' = "split"
    /\ UNCHANGED <<local_event_tables, aggWhole, protoVars, preVars>>

NextAgg == AddLocalTable \/ AggregateWhole \/ AggregateSplit

SpecAgg == InitAgg /\ [][NextAgg]_vars

-----------------------------------------------------------------------------
(* Claims about strata_fit_data_to_km_input (SpecPre).                     *)

\* what the claims say of a clipped table t with visit flags f
PatientsOf(t) == {t[i].pat_ID : i \in DOMAIN t}
VisitsOf(t, p) == {i \in DOMAIN t : t[i].pat_ID = p}
MonthsOf(t, p) == {t[i].Visit_months_from_diagnosis : i \in VisitsOf(t, p)}
FlaggedMonthsOf(t, f, p) ==
    {t[i].Visit_months_from_diagnosis : i \in {j \in VisitsOf(t, p) : f[j]}}
RecordsOf(p) == {k \in DOMAIN summary : summary[k].pat_ID = p}

\* the sustained minimum as spec.md 4.2 step 2 words it: the running minimum
\* of the cumulative class count taken from the end of follow-up backward,
\* maximised over the patient's visits
SustainedMinimum(t, p) ==
    LET cum == compute_unique_dmards(t)
        month(i) == t[i].Visit_months_from_diagnosis
        backMin(i) ==
            Min({cum[j] : j \in {j \in VisitsOf(t, p) : month(j) >= month(i)}})
    IN Max({backMin(i) : i \in VisitsOf(t, p)})

\* C8: a patient flagged at some visit whose sustained minimum class count
\* exceeds 2 gets category interval, interval_start 0, interval_end the
\* earliest follow-up month and TTE the earliest flagged month.
C8_SustainedIsInterval ==
    prePc = "classified" =>
      LET t == ClipTo2006(df)
          f == D2T_RA(t)
      IN \A p \in PatientsOf(t) :
           (FlaggedMonthsOf(t, f, p) # {} /\ SustainedMinimum(t, p) > 2) =>
             \E k \in RecordsOf(p) :
               /\ summary[k].event_indicator = INTERVAL
               /\ summary[k].interval_start = 0
               /\ summary[k].interval_end = Min(MonthsOf(t, p))
               /\ summary[k].TTE = Min(FlaggedMonthsOf(t, f, p))

\* C9: a patient with a retained visit and no flagged visit gets exactly one
\* record, right-censored, with TTE = interval_start = interval_end = the
\* latest follow-up month.
C9_NeverFlaggedIsRightCensored ==
    prePc = "classified" =>
      LET t == ClipTo2006(df)
          f == D2T_RA(t)
      IN \A p \in PatientsOf(t) :
           FlaggedMonthsOf(t, f, p) = {} =>
             /\ Cardinality(RecordsOf(p)) = 1
             /\ \A k \in RecordsOf(p) :
                  /\ summary[k].event_indicator = CENSORED
                  /\ summary[k].TTE = Max(MonthsOf(t, p))
                  /\ summary[k].interval_start = Max(MonthsOf(t, p))
                  /\ summary[k].interval_end = Max(MonthsOf(t, p))

\* a never-flagged patient followed over several months has been classified
C9_Witness ==
    /\ prePc = "classified"
    /\ LET t == ClipTo2006(df)
           f == D2T_RA(t)
       IN \E p \in PatientsOf(t) :
            /\ FlaggedMonthsOf(t, f, p) = {}
            /\ Cardinality(MonthsOf(t, p)) >= 2
            /\ \E k \in RecordsOf(p) : summary[k].TTE > summary[k].minFU

\* C10: every record has interval_start <= interval_end and one of the three
\* categories; exact and right-censored records have
\* interval_start = interval_end = TTE; interval records have
\* interval_start = 0 and interval_end = minFU, the earliest retained month.
C10_RecordInvariant ==
    prePc = "classified" =>
      LET t == ClipTo2006(df)
      IN \A k \in DOMAIN summary :
           LET r == summary[k] IN
           /\ r.interval_start <= r.interval_end
           /\ r.event_indicator \in {EXACT, CENSORED, INTERVAL}
           /\ r.event_indicator \in {EXACT, CENSORED} =>
                (r.interval_start = r.TTE /\ r.interval_end = r.TTE)
           /\ r.event_indicator = INTERVAL =>
                (r.interval_start = 0 /\ r.interval_end = r.minFU)
           /\ r.minFU = Min(MonthsOf(t, r.pat_ID))

\* a table with an exact record (event after the first visit), a
\* right-censored record and an interval record has been classified
C10_Witness ==
    /\ prePc = "classified"
    /\ \E k \in DOMAIN summary :
         summary[k].event_indicator = EXACT /\ summary[k].TTE > summary[k].minFU
    /\ \E k \in DOMAIN summary : summary[k].event_indicator = CENSORED
    /\ \E k \in DOMAIN summary :
         summary[k].event_indicator = INTERVAL /\ summary[k].minFU > 0

\* C11: in every year of the prevalence table an organization computes,
\* d2t_positive <= total_patients, so that the prevalence fraction lies in
\* [0, 1], also for a patient flagged at several visits of one calendar year
C11_PositiveAtMostPatients ==
    prePc = "counted" =>
      \A k \in DOMAIN d2t_by_year :
        d2t_by_year[k].d2t_positive <= d2t_by_year[k].total_patients

\* the months-from-diagnosis of a raw row after the move to 2006
ShiftedMonth(r) ==
    IF r.Year_diagnosis < 2006
    THEN r.Visit_months_from_diagnosis - (2006 - r.Year_diagnosis) * 12
    ELSE r.Visit_months_from_diagnosis
\* the diagnosis year of a raw row after the move to 2006
ShiftedYear(r) == IF r.Year_diagnosis < 2006 THEN 2006 ELSE r.Year_diagnosis
\* the raw rows that are kept
Retained == {i \in DOMAIN df : ShiftedMonth(df[i]) >= 0}
RetainedOf(p) == {i \in Retained : df[i].pat_ID = p}
\* the calendar year of a kept raw row
YearOf(i) == ShiftedYear(df[i]) + (ShiftedMonth(df[i]) \div 12)

\* C14: both preprocessing functions move every visit diagnosed in a year
\* y < 2006 back by (2006 - y) * 12 months and set its diagnosis year to
\* 2006, leave the other visits unchanged, and drop every visit whose month
\* becomes negative; a patient with no visit left gives no record, and every
\* record has diagnosis year >= 2006 and minFU >= 0
C14_ClipTo2006 ==
    /\ prePc = "classified" =>
         /\ {summary[k].pat_ID : k \in DOMAIN summary} = {df[i].pat_ID : i \in Retained}
         /\ \A k \in DOMAIN summary :
              LET r == summary[k]
                  months == {ShiftedMonth(df[i]) : i \in RetainedOf(r.pat_ID)}
              IN /\ r.Year_diagnosis >= 2006
                 /\ r.Year_diagnosis \in {ShiftedYear(df[i]) : i \in RetainedOf(r.pat_ID)}
                 /\ r.minFU >= 0
                 /\ r.minFU = Min(months)
                 /\ r.maxFU = Max(months)
    /\ prePc = "counted" =>
         /\ {d2t_by_year[k].Year_visit : k \in DOMAIN d2t_by_year}
              = {YearOf(i) : i \in Retained}
         /\ \A k \in DOMAIN d2t_by_year :
              d2t_by_year[k].total_patients =
                Cardinality({df[i].pat_ID :
                               i \in {j \in Retained : YearOf(j) = d2t_by_year[k].Year_visit}})

\* a table has been classified in which a patient diagnosed before 2006
\* loses a visit and keeps a later one, moved, and a patient diagnosed in
\* 2006 keeps all visits
C14_Witness ==
    /\ prePc = "classified"
    /\ \E i, j \in DOMAIN df :
         /\ df[i].pat_ID = df[j].pat_ID
         /\ df[i].Year_diagnosis < 2006
         /\ i \notin Retained
         /\ j \in Retained
         /\ \E k \in DOMAIN summary :
              /\ summary[k].pat_ID = df[j].pat_ID
              /\ summary[k].minFU < df[j].Visit_months_from_diagnosis
    /\ \E i \in DOMAIN df :
         df[i].Year_diagnosis = 2006 /\ df[i].Visit_months_from_diagnosis = 0
         /\ \E k \in DOMAIN summary :
              summary[k].pat_ID = df[i].pat_ID /\ summary[k].minFU = 0

-----------------------------------------------------------------------------
(* Claims about the aggregation (SpecAgg).                                 *)

\* C3: summing the local tables of two groups separately and then summing
\* the two group totals gives the same global table, counts and derived
\* hazard and cumulative incidence alike, as summing all the tables at
\* once, for every split of the tables into two groups
C3_SplitIndependent ==
    aggPc = "split" => aggSplit.table = aggWhole

\* three tables with observed and interval counts meeting at one grid time
\* have been summed at once and by groups, the middle table apart
C3_Witness ==
    /\ aggPc = "split"
    /\ Len(local_event_tables) >= 3
    /\ aggSplit.group = {2}
    /\ \E k \in DOMAIN aggWhole :
         /\ aggWhole[k].observed > 0
         /\ aggWhole[k].interval > 0
         /\ aggWhole[k].at_risk > aggWhole[k].removed
    /\ \E k \in DOMAIN aggWhole :
         ~aggWhole[k].cumulative_incidence.nan
         /\ aggWhole[k].cumulative_incidence.num > 0

-----------------------------------------------------------------------------
(* Claims about kaplan_meier_central (Spec).                               *)

\* a / b <= c / d for two fractions that are numbers
FracLeq(a, b) == a.num * b.den <= b.num * a.den

Zero == Frac(0, 1)
One == Frac(1, 1)

\* C1: when the resolved list of organizations is shorter than
\* MINIMUM_ORGANIZATIONS, the run raises the privacy-threshold error and no
\* partial task is ever created: nothing is dispatched, no organization
\* answers, and no table is computed
C1_QuorumBeforeDispatch ==
    Len(ResolveOrganizations(organizations_to_include)) < MINIMUM_ORGANIZATIONS
    => /\ task = NoTask
       /\ results = NoResults
       /\ unique_event_times = <<>> /\ km_df = <<>> /\ prevalence_df = <<>>
       /\ pc \in {"start", "raised"}
       /\ pc = "raised" => outcome = "PrivacyThresholdViolation"

\* a run on too few organizations has been refused
C1_Witness ==
    /\ pc = "raised"
    /\ outcome = "PrivacyThresholdViolation"
    /\ Len(organizations_to_include) = MINIMUM_ORGANIZATIONS - 1

\* C2: the table round is dispatched only once every organization's
\* event-time list has been collected; the grid it carries is the ascending,
\* duplicate-free union of those lists, and every organization builds its
\* table on that same grid
C2_GridAssembledBeforeTables ==
    /\ [][(task'.method = "get_km_event_table" /\ task.method # "get_km_event_table")
          => /\ task.method = "get_unique_event_times"
             /\ \A o \in Range(task.organizations) : results[o].done
             /\ Range(task'.unique_event_times) =
                  UNION {Range(results[o].value) : o \in Range(task.organizations)}
             /\ \A i, j \in DOMAIN task'.unique_event_times :
                  i < j => task'.unique_event_times[i] < task'.unique_event_times[j]]_vars
    /\ [](task.method = "get_km_event_table"
          => \A o \in Range(task.organizations) :
               results[o].done
               => [k \in DOMAIN results[o].value |-> results[o].value[k].interval_start]
                    = task.unique_event_times)

\* the table round is in flight on a grid of several times drawn from
\* several organizations, and an organization has answered it
C2_Witness ==
    /\ task.method = "get_km_event_table"
    /\ Len(task.unique_event_times) >= 2
    /\ \E o \in Range(task.organizations) : results[o].done

\* the global table has been computed
TableComputed == pc \in {"step4", "wait4", "done"}

\* C4: in the global table every hazard and every cumulative incidence is a
\* number in [0, 1], and the cumulative incidence never decreases along the
\* grid
C4_HazardAndIncidenceInRange ==
    TableComputed
    => \A k \in DOMAIN km_df :
         /\ ~km_df[k].hazard.nan
         /\ FracLeq(Zero, km_df[k].hazard) /\ FracLeq(km_df[k].hazard, One)
         /\ ~km_df[k].cumulative_incidence.nan
         /\ FracLeq(Zero, km_df[k].cumulative_incidence)
         /\ FracLeq(km_df[k].cumulative_incidence, One)
         /\ k > 1 => /\ ~km_df[k - 1].cumulative_incidence.nan
                     /\ FracLeq(km_df[k - 1].cumulative_incidence,
                                km_df[k].cumulative_incidence)

\* at_risk does not increase from one row of the table to the next
NonIncreasingAtRisk(table) ==
    \A k \in DOMAIN table : k > 1 => table[k].at_risk <= table[k - 1].at_risk

\* C5: at_risk is non-increasing along the ascending grid, in every local
\* table an organization returns and in the global table summed from them
C5_AtRiskNonIncreasing ==
    /\ task.method = "get_km_event_table"
       => \A o \in Range(task.organizations) :
            results[o].done => NonIncreasingAtRisk(results[o].value)
    /\ TableComputed => NonIncreasingAtRisk(km_df)

\* a local table and the global table both fall strictly along the grid
C5_Witness ==
    /\ pc = "step4"
    /\ \E o \in Range(task.organizations) :
         \E k \in DOMAIN results[o].value :
           k > 1 /\ results[o].value[k].at_risk < results[o].value[k - 1].at_risk
    /\ \E k \in DOMAIN km_df :
         k > 1 /\ km_df[k].at_risk < km_df[k - 1].at_risk /\ km_df[k].at_risk > 0

\* the patient records the included organizations hold
TotalRecords ==
    SumSeq([k \in DOMAIN task.organizations |->
              Len(strata_fit_data_to_km_input(Database(db[task.organizations[k]])))])

\* C6: in the global table at_risk at the smallest grid time equals the sum
\* of removed over the grid, and that sum is the number of patient records
\* across the organizations, whatever the noise setting
C6_EveryRecordCountedOnce ==
    TableComputed
    => /\ km_df # <<>>
       /\ km_df[1].at_risk = SumSeq([k \in DOMAIN km_df |-> km_df[k].removed])
       /\ km_df[1].at_risk = TotalRecords

\* C7: where at_risk is 0 the hazard is 0, not NaN, and from there on the
\* cumulative incidence is a number
C7_ZeroAtRiskHazardIsZero ==
    TableComputed
    => \A k \in DOMAIN km_df :
         km_df[k].at_risk = 0
         => /\ km_df[k].hazard = Zero
            /\ \A j \in DOMAIN km_df : j >= k => ~km_df[j].cumulative_incidence.nan

\* the records organization o holds after its preprocessing
LocalRecords(o) == strata_fit_data_to_km_input(Database(db[o]))

\* the records of one category in r whose column equals time t
Matching(r, category, column, t) ==
    {i \in DOMAIN r : r[i].event_indicator = category /\ r[i][column] = t}

C13_EventTableCounts ==
    task.method = "get_km_event_table" =>
      \A o \in Range(task.organizations) :
        results[o].done =>
          LET grid == task.unique_event_times
              v == results[o].value
          IN \E d \in NoiseDraws(noise_type, Len(LocalRecords(o))) :
               LET r == NoisedRecords(LocalRecords(o), noise_type, d) IN
               /\ Len(v) = Len(grid)
               /\ \A k \in DOMAIN v :
                    /\ v[k].interval_start = grid[k]
                    /\ v[k].observed =
                         Cardinality(Matching(r, EXACT, "interval_start", grid[k]))
                    /\ v[k].censored =
                         Cardinality(Matching(r, CENSORED, "interval_start", grid[k]))
                    /\ v[k].interval =
                         Cardinality(Matching(r, INTERVAL, "interval_end", grid[k]))
                    /\ v[k].removed = v[k].observed + v[k].interval + v[k].censored

\* the table round has returned a table with an interval record counted at
\* its end and zero rows elsewhere, and a table with an exact record
C13_Witness ==
    /\ task.method = "get_km_event_table"
    /\ \E o \in Range(task.organizations) :
         /\ results[o].done
         /\ \E k \in DOMAIN results[o].value :
              results[o].value[k].interval > 0 /\ results[o].value[k].interval_start > 0
         /\ \E k \in DOMAIN results[o].value : results[o].value[k].removed = 0
    /\ \E o \in Range(task.organizations) :
         results[o].done
         /\ \E k \in DOMAIN results[o].value : results[o].value[k].observed > 0

-----------------------------------------------------------------------------
====
